---- MODULE Spec2Model ----
(***************************************************************************)
(* The auction session of the cricket-auction application: the bid         *)
(* placement handler (POST /api/bids), the auction control handlers        *)
(* (PUT and DELETE /api/auctions/[id]) and the models they act on          *)
(* (Auction, Bid, Team).                                                   *)
(*                                                                         *)
(* The database holds one Auction document, its Bid documents and the Team *)
(* documents.  A request handler is an async function: every `await` of a  *)
(* database call is a point where other handlers run, so a handler is a    *)
(* sequence of steps, one per database call, each step taking the          *)
(* synchronous code that follows the call up to the next one.  A Mongoose  *)
(* save() writes the paths the handler modified ($set of a field, $push of *)
(* an array element) to the stored document, not the whole loaded copy.    *)
(*                                                                         *)
(* The specifications share the actions:                                   *)
(*   Spec          bid and control requests arrive and run concurrently;   *)
(*   SeqSpec       one bid request at a time;                              *)
(*   LedgerSpec    the Team budget ledger;                                 *)
(*   AccessSpec    a viewer's requests while teams are managed;            *)
(*   BudgetSpec    bid requests racing purchases;                          *)
(*   ControlSpec   the lifecycle methods and routes of the auction;        *)
(*   PurchaseSpec  the budget ledger with its calls recorded;              *)
(*   RoleSpec      the role hierarchy;                                     *)
(*   FailureSpec   bid requests whose writes may fail;                     *)
(*   SocketSpec    the socket server and the auction page;                 *)
(*   SaleSpec      bids followed by the sale of the player.                *)
(***************************************************************************)
EXTENDS Integers, Sequences, FiniteSets, TLC

\* ------------------------------------------------------------------ bounds
MaxBidRequests == 2      \* Spec: bid requests received over a run
MaxControlOps == 1       \* Spec: PUT and DELETE requests received over a run
MaxSequentialBids == 3   \* SeqSpec: bid requests received over a run
TeamMaxPlayers == 2      \* settings.maxPlayers of the teams

\* ------------------------------------------------------- program constants
DefaultMinBid == 40           \* settings.minBid default
DefaultMinBidIncrement == 20  \* settings.minBidIncrement default
DefaultTimerDuration == 30    \* timer.duration, timer.remaining, settings.timerDuration default
MinTimerDuration == 10        \* the least timer.duration and settings.timerDuration

Null == "null"
NoBid == 0    \* auction.currentBid while no bid is the current one; bid ids are 1, 2, ...

\* config.roles
ADMIN == "admin"
AUCTIONEER == "auctioneer"
CAPTAIN == "captain"
MANAGER == "manager"
BIDDER == "bidder"
VIEWER == "viewer"

\* ------------------------------------------------------------------ inputs
\* The users that send requests.  Anonymous is a request without a valid token.
Anonymous == [userId |-> Null, role |-> Null]
Captain1 == [userId |-> "u1", role |-> CAPTAIN]     \* captain of team1
Manager2 == [userId |-> "u2", role |-> MANAGER]     \* manager of team2
Admin == [userId |-> "u4", role |-> ADMIN]
Auctioneer == [userId |-> "u5", role |-> AUCTIONEER]
Viewer == [userId |-> "u6", role |-> VIEWER]
Actors == {Captain1, Manager2, Admin, Auctioneer, Viewer}

\* The connected sockets: s1 is the auction page of team1's captain, s2 a
\* connection without token.  Auction A is the auction document, B another one.
Sockets == {"s1", "s2"}
AuctionIds == {"A", "B"}

TeamIds == {"team1", "team2"}
NoTeam == "team0"                 \* a team id no Team document has
PlayerIds == {"P", "Q"}
RosterPlayerIds == {"P", "Q", "R"}   \* the players Team.addPlayer is called with
AuctionPlayers == <<"P", "Q">>    \* auction.players
BidAmounts == {0, 40, 50, 60}     \* 0: the amount field is missing or zero

VARIABLES
  auction,   \* the Auction document in the database
  bids,      \* the Bid documents in the database, a set of records
  teams,     \* the Team documents in the database, by id
  req,       \* the bid requests received so far, in order of arrival
  ctl,       \* the PUT and DELETE requests received so far, in order of arrival
  rooms,     \* the socket server: the auction rooms each connected socket is in
  events     \* the events the socket server has emitted to rooms, in order

vars == <<auction, bids, teams, req, ctl, rooms, events>>

\* ------------------------------------------------------------------- Team
\* teamSchema.virtual('availableBudget')
availableBudget(team) == team.tokens - team.totalSpent

\* teamSchema.methods.canBid, on the budget the handler read
canBid(avail, amount) == amount <= avail

RECURSIVE SumAmounts(_)
SumAmounts(players) ==
  IF players = <<>> THEN 0 ELSE Head(players).amount + SumAmounts(Tail(players))

RosterIds(team) == {team.players[k].playerId : k \in DOMAIN team.players}

\* The schema's validators, which save() runs: tokens, totalSpent and every
\* roster amount have min 0.
ValidTeam(team) ==
  /\ team.tokens >= 0
  /\ team.totalSpent >= 0
  /\ \A k \in DOMAIN team.players : team.players[k].amount >= 0

\* The purchase recorded on the roster and in tokens, totalSpent left as it was.
Purchased_TotalSpentKept(team, playerId, amount) ==
  [team EXCEPT !.players = Append(@, [playerId |-> playerId, amount |-> amount]),
               !.tokens = @ - amount]

\* The purchase charged but not entered in the roster.
Purchased_NoRosterEntry(team, playerId, amount) ==
  [team EXCEPT !.totalSpent = @ + amount,
               !.tokens = @ - amount]

\* teamSchema.methods.addPlayer past its three guards: the push and the two
\* assignments.
Purchased(team, playerId, amount) ==
  [team EXCEPT !.players = Append(@, [playerId |-> playerId, amount |-> amount]),
               !.totalSpent = @ + amount,
               !.tokens = @ - amount]

\* addPlayer without its budget guard.
AfterAddPlayer_NoBudgetGuard(team, playerId, amount) ==
  IF playerId \in RosterIds(team) THEN team
  ELSE IF Len(team.players) >= team.maxPlayers THEN team
  ELSE IF ~ValidTeam(Purchased(team, playerId, amount)) THEN team
  ELSE Purchased(team, playerId, amount)

\* teamSchema.methods.addPlayer: the stored team after the call.  A call that
\* throws, or whose save() fails validation, stores nothing.
AfterAddPlayer(team, playerId, amount) ==
  IF playerId \in RosterIds(team) THEN team
  ELSE IF Len(team.players) >= team.maxPlayers THEN team
  ELSE IF amount > availableBudget(team) THEN team
  ELSE IF ~ValidTeam(Purchased(team, playerId, amount)) THEN team
  ELSE Purchased(team, playerId, amount)

\* removePlayer giving no tokens back.
AfterRemovePlayer_TokensKept(team, playerId) ==
  IF playerId \notin RosterIds(team) THEN team
  ELSE LET playerIndex == CHOOSE k \in DOMAIN team.players :
                            team.players[k].playerId = playerId
           player == team.players[playerIndex]
           removed == [team EXCEPT
                         !.totalSpent = @ - player.amount,
                         !.players = SubSeq(@, 1, playerIndex - 1)
                                       \o SubSeq(@, playerIndex + 1, Len(@))]
       IN  IF ValidTeam(removed) THEN removed ELSE team

\* teamSchema.methods.removePlayer: the stored team after the call.
AfterRemovePlayer(team, playerId) ==
  IF playerId \notin RosterIds(team) THEN team
  ELSE LET playerIndex == CHOOSE k \in DOMAIN team.players :
                            team.players[k].playerId = playerId
           player == team.players[playerIndex]
           removed == [team EXCEPT
                         !.totalSpent = @ - player.amount,
                         !.tokens = @ + player.amount,
                         !.players = SubSeq(@, 1, playerIndex - 1)
                                       \o SubSeq(@, playerIndex + 1, Len(@))]
       IN  IF ValidTeam(removed) THEN removed ELSE team

\* teamSchema.methods.updateTokens: the stored team after the call.
AfterUpdateTokens(team, newAmount) ==
  IF newAmount < 0 THEN team ELSE [team EXCEPT !.tokens = newAmount]

AddPlayer(t, playerId, amount) ==
  /\ teams' = [teams EXCEPT ![t] = AfterAddPlayer(@, playerId, amount)]
  /\ UNCHANGED <<auction, bids, req, ctl, rooms, events>>

RemovePlayer(t, playerId) ==
  /\ teams' = [teams EXCEPT ![t] = AfterRemovePlayer(@, playerId)]
  /\ UNCHANGED <<auction, bids, req, ctl, rooms, events>>

UpdateTokens(t, newAmount) ==
  /\ teams' = [teams EXCEPT ![t] = AfterUpdateTokens(@, newAmount)]
  /\ UNCHANGED <<auction, bids, req, ctl, rooms, events>>

\* PUT /api/teams/[id]: the stored team after the request.  Only the captain of
\* the team, an admin or an auctioneer may update; captainId, players, tokens and
\* totalSpent are removed from the updates, managerId is not.
AfterUpdateTeam(team, actor, managerId) ==
  LET isTeamOwner == team.captainId = actor.userId
      isAdmin == actor.role = ADMIN
      isAuctioneer == actor.role = AUCTIONEER
  IN  IF ~isTeamOwner /\ ~isAdmin /\ ~isAuctioneer THEN team
      ELSE [team EXCEPT !.managerId = managerId]

UpdateTeam(actor, t, managerId) ==
  /\ teams' = [teams EXCEPT ![t] = AfterUpdateTeam(@, actor, managerId)]
  /\ UNCHANGED <<auction, bids, req, ctl, rooms, events>>

\* ------------------------------------------------------------------- Bid
BidsFor(bs, playerId) == {b \in bs : b.playerId = playerId}

\* The amount of the bid Bid.findHighestBidForPlayer returns for the player,
\* 0 when it returns null (no bid for the player).
findHighestBidForPlayer(bs, playerId) ==
  IF BidsFor(bs, playerId) = {} THEN 0
  ELSE CHOOSE a \in {b.amount : b \in BidsFor(bs, playerId)} :
         \A b \in BidsFor(bs, playerId) : b.amount <= a

\* ------------------------------------------------------------ POST /api/bids
\* A check that lets every authenticated user through.
CanBidForTeam_AnyUser(actor, team) == TRUE

\* The permission check of the handler.
CanBidForTeam(actor, team) ==
  LET isCaptain == team.captainId = actor.userId
      isManager == team.managerId # Null /\ team.managerId = actor.userId
      isAdmin == actor.role = ADMIN
      isAuctioneer == actor.role = AUCTIONEER
  IN  isCaptain \/ isManager \/ isAdmin \/ isAuctioneer

\* requiredAmount without the increment over the highest bid.
RequiredAmount_NoIncrement(highest, minBid, minIncrement) == minBid

\* requiredAmount of the handler, from the highest bid it read and the settings
\* of the auction document it loaded.
RequiredAmount(highest, minBid, minIncrement) ==
  IF highest # 0 THEN highest + minIncrement ELSE minBid

\* The local state of a handler: the request, what it has read, its response.
\* A field the handler has not read yet is Null (0 for a number).
NewRequest ==
  [pc |-> "team", actor |-> Anonymous, teamId |-> Null, playerId |-> Null,
   amount |-> 0, avail |-> 0, minBid |-> 0, minIncrement |-> 0,
   highest |-> 0, required |-> 0, result |-> Null]

\* The handler returns: its response is the result.
Respond(r, code) == [r EXCEPT !.pc = "done", !.result = code]

\* A request arrives: withAuth, the required fields, Team.findById and the
\* permission check.
Receive(ts, actor, teamId, playerId, amount) ==
  LET authed == [NewRequest EXCEPT !.actor = actor]
      named == [authed EXCEPT !.teamId = teamId]
      r == [named EXCEPT !.playerId = playerId, !.amount = amount]
  IN  IF actor = Anonymous THEN Respond(NewRequest, "Unauthorized")
      ELSE IF amount = 0 THEN Respond(NewRequest, "BadRequest")
      ELSE IF teamId \notin DOMAIN ts THEN Respond(NewRequest, "TeamNotFound")
      ELSE IF ~CanBidForTeam(actor, ts[teamId]) THEN Respond(named, "Forbidden")
      ELSE [r EXCEPT !.pc = "auction", !.avail = availableBudget(ts[teamId])]

\* Auction.findById, then the status, current player and budget checks.
AfterCheckAuction(a, request) ==
  LET r == request
  IN  IF a.status # "active" THEN Respond(r, "AuctionNotActive")
      ELSE IF a.currentPlayer # r.playerId THEN Respond(r, "PlayerNotCurrent")
      ELSE IF ~canBid(r.avail, r.amount) THEN Respond(r, "InsufficientBudget")
      ELSE [r EXCEPT !.pc = "highest",
                     !.minBid = a.settings.minBid,
                     !.minIncrement = a.settings.minBidIncrement]

\* Bid.findHighestBidForPlayer, then the amount check.
AfterFindHighest(bs, r) ==
  LET highest == findHighestBidForPlayer(bs, r.playerId)
      required == RequiredAmount(highest, r.minBid, r.minIncrement)
      seen == [r EXCEPT !.highest = highest, !.required = required]
  IN  IF r.amount < required THEN Respond(seen, "BidTooLow")
      ELSE [seen EXCEPT !.pc = IF highest # 0 THEN "clear" ELSE "create"]

\* The update that clears no flag.
MarkNotWinning_NoneCleared(bs, playerId) == bs

\* Bid.updateMany({auctionId, playerId, isWinning: true}, {isWinning: false})
MarkNotWinning(bs, playerId) ==
  {IF b.playerId = playerId THEN [b EXCEPT !.isWinning = FALSE] ELSE b : b \in bs}

\* bidData.bidderId = req.user.userId; bidData.isWinning = true;
\* Bid.createBid(bidData).  The request gives the id.
WithNewBid(bs, i, r) ==
  bs \cup {[id |-> i, playerId |-> r.playerId, teamId |-> r.teamId,
            bidderId |-> r.actor.userId, amount |-> r.amount, isWinning |-> TRUE]}

\* auction.currentBid = bid._id; auction.bidHistory.push(bid._id); auction.save()
WithCurrentBid(a, i) == [a EXCEPT !.currentBid = i, !.bidHistory = Append(@, i)]

PlaceBid(actor, teamId, playerId, amount) ==
  /\ req' = Append(req, Receive(teams, actor, teamId, playerId, amount))
  /\ UNCHANGED <<auction, bids, teams, ctl, rooms, events>>

CheckAuction(i) ==
  /\ req[i].pc = "auction"
  /\ req' = [req EXCEPT ![i] = AfterCheckAuction(auction, @)]
  /\ UNCHANGED <<auction, bids, teams, ctl, rooms, events>>

FindHighest(i) ==
  /\ req[i].pc = "highest"
  /\ req' = [req EXCEPT ![i] = AfterFindHighest(bids, @)]
  /\ UNCHANGED <<auction, bids, teams, ctl, rooms, events>>

ClearWinners(i) ==
  /\ req[i].pc = "clear"
  /\ bids' = MarkNotWinning(bids, req[i].playerId)
  /\ req' = [req EXCEPT ![i].pc = "create"]
  /\ UNCHANGED <<auction, teams, ctl, rooms, events>>

CreateBid(i) ==
  /\ req[i].pc = "create"
  /\ bids' = WithNewBid(bids, i, req[i])
  /\ req' = [req EXCEPT ![i].pc = "save"]
  /\ UNCHANGED <<auction, teams, ctl, rooms, events>>

SaveAuction(i) ==
  /\ req[i].pc = "save"
  /\ auction' = WithCurrentBid(auction, i)
  /\ req' = [req EXCEPT ![i] = Respond(@, "Created")]
  /\ UNCHANGED <<bids, teams, ctl, rooms, events>>

\* ------------------------------------------------- /api/auctions/[id]
\* requireAuctioneer
IsAuctioneerOrAdmin(actor) == actor.role \in {ADMIN, AUCTIONEER}

\* PUT /api/auctions/[id]: Auction.findByIdAndUpdate(id, updates), one atomic
\* update of the stored document.  requireAuctioneer answers a user of another
\* role before the handler reads the body.
Updated(a, field, value) ==
  IF field = "status" THEN [a EXCEPT !.status = value]
  ELSE [a EXCEPT !.currentPlayer = value]

UpdateAuction(actor, field, value) ==
  /\ auction' = IF IsAuctioneerOrAdmin(actor) THEN Updated(auction, field, value)
                ELSE auction
  /\ ctl' = Append(ctl, IF IsAuctioneerOrAdmin(actor)
                           THEN [kind |-> "update", pc |-> "done", actor |-> actor,
                                 field |-> field, value |-> value, result |-> "OK"]
                           ELSE [kind |-> "update", pc |-> "done", actor |-> actor,
                                 field |-> Null, value |-> Null,
                                 result |-> "Forbidden"])
  /\ UNCHANGED <<bids, teams, req, rooms, events>>

\* The status check of DELETE letting a completed auction through.
CanCancel_Always(a) == TRUE

\* DELETE /api/auctions/[id]: Auction.findById and the status check ...
CanCancel(a) == a.status # "completed"

CancelAuction(actor) ==
  /\ ctl' = Append(ctl, [kind |-> "cancel",
                          pc |-> IF IsAuctioneerOrAdmin(actor) /\ CanCancel(auction)
                                   THEN "save" ELSE "done",
                          actor |-> actor, field |-> Null, value |-> Null,
                          result |-> IF ~IsAuctioneerOrAdmin(actor) THEN "Forbidden"
                                     ELSE IF ~CanCancel(auction) THEN "BadRequest"
                                     ELSE Null])
  /\ UNCHANGED <<auction, bids, teams, req, rooms, events>>

\* ... then auction.status = 'cancelled' and auction.save().
Cancelled(a) == [a EXCEPT !.status = "cancelled"]

SaveCancel(i) ==
  /\ ctl[i].pc = "save"
  /\ auction' = Cancelled(auction)
  /\ ctl' = [ctl EXCEPT ![i].pc = "done", ![i].result = "OK"]
  /\ UNCHANGED <<bids, teams, req, rooms, events>>

\* No handler is in flight.
Quiescent ==
  /\ \A i \in DOMAIN req : req[i].pc = "done"
  /\ \A i \in DOMAIN ctl : ctl[i].pc = "done"

\* ------------------------------------------------------------------- Init
\* An auction of two players with the schema's default settings that its
\* auctioneer has made active, with P, the first player, put up and no bid yet.
InitAuction ==
  [status |-> "active", currentPlayer |-> "P", players |-> AuctionPlayers,
   soldPlayers |-> {}, unsoldPlayers |-> {}, skippedPlayers |-> {},
   currentBid |-> NoBid, bidHistory |-> <<>>,
   timer |-> [duration |-> DefaultTimerDuration, remaining |-> DefaultTimerDuration,
              isActive |-> FALSE],
   settings |-> [minBid |-> DefaultMinBid, minBidIncrement |-> DefaultMinBidIncrement,
                 timerDuration |-> DefaultTimerDuration],
   statistics |-> [totalSold |-> 0, totalRevenue |-> 0],
   logs |-> <<>>]

\* Two teams: team1 of Captain1 with 50 tokens, team2 with Manager2 and 100.
InitTeams ==
  [t \in TeamIds |->
     IF t = "team1"
       THEN [captainId |-> "u1", managerId |-> Null, tokens |-> 50,
             totalSpent |-> 0, players |-> <<>>, maxPlayers |-> TeamMaxPlayers]
       ELSE [captainId |-> "u3", managerId |-> "u2", tokens |-> 100,
             totalSpent |-> 0, players |-> <<>>, maxPlayers |-> TeamMaxPlayers]]

Init ==
  /\ auction = InitAuction
  /\ bids = {}
  /\ teams = InitTeams
  /\ req = <<>>
  /\ ctl = <<>>
  /\ rooms = [s \in Sockets |-> {}]
  /\ events = <<>>

\* Concurrent requests: the bidders are the two teams' own users and bid for
\* the player put up first, the control requests come from the admin or from a
\* viewer.
Next ==
  \/ /\ Len(req) < MaxBidRequests
     /\ \E actor \in {Captain1, Manager2}, t \in TeamIds, a \in {20, 40, 60} :
          PlaceBid(actor, t, "P", a)
  \/ \E i \in DOMAIN req : CheckAuction(i)
  \/ \E i \in DOMAIN req : FindHighest(i)
  \/ \E i \in DOMAIN req : ClearWinners(i)
  \/ \E i \in DOMAIN req : CreateBid(i)
  \/ \E i \in DOMAIN req : SaveAuction(i)
  \/ /\ Len(ctl) < MaxControlOps
     /\ \E actor \in {Admin, Viewer}, v \in {"paused", "completed"} :
          UpdateAuction(actor, "status", v)
  \/ /\ Len(ctl) < MaxControlOps
     /\ \E actor \in {Admin, Viewer} : UpdateAuction(actor, "currentPlayer", "Q")
  \/ /\ Len(ctl) < MaxControlOps
     /\ \E actor \in {Admin, Viewer} : CancelAuction(actor)
  \/ \E i \in DOMAIN ctl : SaveCancel(i)

Spec == Init /\ [][Next]_vars

\* The bid requests arrive one at a time, each after the answer to the one
\* before, from any user, for any team and amount, for the current player.
SeqNext ==
  \/ /\ Len(req) < MaxSequentialBids
     /\ Quiescent
     /\ \E actor \in Actors \cup {Anonymous}, t \in TeamIds \cup {NoTeam},
           a \in BidAmounts :
          PlaceBid(actor, t, "P", a)
  \/ \E i \in DOMAIN req : CheckAuction(i)
  \/ \E i \in DOMAIN req : FindHighest(i)
  \/ \E i \in DOMAIN req : ClearWinners(i)
  \/ \E i \in DOMAIN req : CreateBid(i)
  \/ \E i \in DOMAIN req : SaveAuction(i)

SeqSpec == Init /\ [][SeqNext]_vars

\* The budget ledger of the teams: any sequence of addPlayer, removePlayer and
\* updateTokens calls on the two teams.
LedgerNext ==
  \/ \E t \in TeamIds, p \in RosterPlayerIds, a \in {-20, 40, 60} : AddPlayer(t, p, a)
  \/ \E t \in TeamIds, p \in RosterPlayerIds : RemovePlayer(t, p)
  \/ \E t \in TeamIds, n \in {-10, 100} : UpdateTokens(t, n)

LedgerSpec == Init /\ [][LedgerNext]_vars

\* The requests of a viewer and of a sender without token, one bid request at
\* a time, while the captain of team1 and the admin manage teams and auction.
AccessNext ==
  \/ \E actor \in {Captain1, Admin, Viewer}, t \in TeamIds, m \in {Null, Viewer.userId} :
        UpdateTeam(actor, t, m)
  \/ /\ Len(req) < MaxBidRequests
     /\ Quiescent
     /\ \E actor \in {Viewer, Anonymous, Captain1}, t \in TeamIds, a \in {40, 60} :
          PlaceBid(actor, t, "P", a)
  \/ \E i \in DOMAIN req : CheckAuction(i)
  \/ \E i \in DOMAIN req : FindHighest(i)
  \/ \E i \in DOMAIN req : ClearWinners(i)
  \/ \E i \in DOMAIN req : CreateBid(i)
  \/ \E i \in DOMAIN req : SaveAuction(i)
  \/ /\ Len(ctl) < MaxControlOps
     /\ \E actor \in {Admin, Viewer}, v \in {"paused", "completed"} :
          UpdateAuction(actor, "status", v)
  \/ /\ Len(ctl) < MaxControlOps
     /\ \E actor \in {Admin, Viewer} : CancelAuction(actor)
  \/ \E i \in DOMAIN ctl : SaveCancel(i)

AccessSpec == Init /\ [][AccessNext]_vars

\* Bid requests of the teams' own users while purchases are committed to the
\* teams with addPlayer and undone with removePlayer.
BudgetNext ==
  \/ /\ Len(req) < MaxBidRequests
     /\ \E actor \in {Captain1, Manager2}, t \in TeamIds, a \in {40, 60} :
          PlaceBid(actor, t, "P", a)
  \/ \E i \in DOMAIN req : CheckAuction(i)
  \/ \E i \in DOMAIN req : FindHighest(i)
  \/ \E i \in DOMAIN req : ClearWinners(i)
  \/ \E i \in DOMAIN req : CreateBid(i)
  \/ \E i \in DOMAIN req : SaveAuction(i)
  \/ \E t \in TeamIds, a \in {40, 60} : AddPlayer(t, "Q", a)
  \/ \E t \in TeamIds : RemovePlayer(t, "Q")

BudgetSpec == Init /\ [][BudgetNext]_vars

\* ------------------------------------------------------------------ claims
WinningBids(playerId) == {b \in bids : b.playerId = playerId /\ b.isWinning}

\* The Bid documents a step creates.
NewBids == {b \in bids' : \A o \in bids : o.id # b.id}

\* The amount of the leading bid for a player in the database, 0 when the
\* player has no bid.
Leading(playerId) ==
  IF \E b \in bids : b.playerId = playerId
    THEN CHOOSE a \in {b.amount : b \in {o \in bids : o.playerId = playerId}} :
           \A b \in bids : b.playerId = playerId => b.amount <= a
    ELSE 0

C1_WinningIds == {b.id : b \in {o \in bids : o.isWinning}}

\* C1: at every moment each player of the auction has at most one Bid with
\* isWinning = true, whatever the interleaving of the bid requests.
C1_AtMostOneWinningBid ==
  \A p \in PlayerIds : Cardinality(WinningBids(p)) <= 1

\* C2: of two bid requests for the same player with the same amount, never are
\* both accepted: when one is accepted, the other, once it has passed the
\* checks before the amount check, is answered "below the required amount".
C2_EqualBidsOneAccepted ==
  \A i, j \in DOMAIN req :
    ( /\ i # j
      /\ req[i].playerId = req[j].playerId
      /\ req[i].amount = req[j].amount
      /\ req[i].result = "Created"
      /\ req[j].pc \in {"clear", "create", "save", "done"}
      /\ req[j].required # 0 )
    => req[j].result = "BidTooLow"

\* ---------------------------------------------------------- serial execution
\* The mutable documents of the auction: what a request can change.
Db == [auction |-> auction, bids |-> bids]

\* The bid handler of request i run alone, from the permission check on, on the
\* documents db.  A request answered at the door changes nothing.
RunBid(db, i) ==
  LET r == req[i]
      atDoor == [NewRequest EXCEPT !.pc = "auction", !.actor = r.actor,
                                   !.teamId = r.teamId,
                                   !.playerId = r.playerId, !.amount = r.amount,
                                   !.avail = r.avail]
      checked == AfterCheckAuction(db.auction, atDoor)
      seen == AfterFindHighest(db.bids, checked)
      cleared == IF seen.pc = "clear" THEN MarkNotWinning(db.bids, r.playerId)
                 ELSE db.bids
  IN  IF r.playerId = Null \/ checked.pc = "done" \/ seen.pc = "done" THEN db
      ELSE [auction |-> WithCurrentBid(db.auction, i),
            bids |-> WithNewBid(cleared, i, seen)]

\* The PUT or DELETE handler of control request i run alone.
RunControl(db, i) ==
  LET c == ctl[i]
  IN  IF ~IsAuctioneerOrAdmin(c.actor) THEN db
      ELSE IF c.kind = "update"
        THEN [db EXCEPT !.auction = Updated(@, c.field, c.value)]
      ELSE IF CanCancel(db.auction) THEN [db EXCEPT !.auction = Cancelled(@)]
      ELSE db

RunOp(db, op) ==
  IF op.kind = "bid" THEN RunBid(db, op.i) ELSE RunControl(db, op.i)

RECURSIVE Replay(_, _)
Replay(db, ops) ==
  IF ops = <<>> THEN db ELSE Replay(RunOp(db, Head(ops)), Tail(ops))

\* The operations of the run: the requests received.
Operations ==
  {[kind |-> "bid", i |-> i] : i \in DOMAIN req}
    \cup {[kind |-> "control", i |-> i] : i \in DOMAIN ctl}

RECURSIVE Orders(_)
Orders(S) ==
  IF S = {} THEN {<<>>}
  ELSE UNION {{<<x>> \o o : o \in Orders(S \ {x})} : x \in S}

\* C3: when every request has been answered, the auction document (status,
\* currentBid, bidHistory) and the Bid documents (with their isWinning flags)
\* are those that running the same bid, update and cancel requests one after
\* the other, in some order, produces from the initial state.
C3_EquivalentToSerialOrder ==
  Quiescent =>
    \E order \in Orders(Operations) :
      Replay([auction |-> InitAuction, bids |-> {}], order) = Db

\* C6: a handler that reaches the amount check with an amount below the leading
\* amount plus minBidIncrement (below minBid when the player has no bid) answers
\* "bid too low", and that step changes neither the auction document (currentBid,
\* bidHistory) nor any Bid document (isWinning).
C6_LowBidRejectedWithoutChange ==
  [][\A i \in DOMAIN req :
       ( /\ req[i].pc = "highest"
         /\ req'[i] # req[i]
         /\ req[i].amount < (IF Leading(req[i].playerId) # 0
                               THEN Leading(req[i].playerId)
                                    + auction.settings.minBidIncrement
                               ELSE auction.settings.minBid) )
       => /\ req'[i].result = "BidTooLow"
          /\ auction' = auction
          /\ bids' = bids]_vars

\* C6 witness: a request of 40 was turned down against the leading 40 plus the
\* increment, and the accepted bid is still the winning and the current one.
C6_Witness ==
  \E i, j \in DOMAIN req :
    /\ req[i].result = "BidTooLow" /\ req[i].highest = 40 /\ req[i].amount = 40
    /\ req[j].result = "Created"
    /\ auction.currentBid = j /\ auction.bidHistory = <<j>>
    /\ \E b \in bids : b.id = j /\ b.isWinning

\* C8: every Bid is created with an amount of at least the leading amount for
\* its player plus minBidIncrement, the first one with at least minBid, so the
\* accepted amounts of a player strictly increase in the order of acceptance.
C8_AcceptedAmountsIncrease ==
  [][\A b \in NewBids :
       b.amount >= (IF Leading(b.playerId) # 0
                      THEN Leading(b.playerId) + auction.settings.minBidIncrement
                      ELSE auction.settings.minBid)]_vars

\* C9: a Bid is created only while the auction is 'active' and its current
\* player is the Bid's player, also when a PUT or DELETE ran after the handler's
\* check.
C9_CreatedOnlyWhileActiveAndCurrent ==
  [][\A b \in NewBids :
       auction.status = "active" /\ auction.currentPlayer = b.playerId]_vars

\* C4: a purchase committed with Team.addPlayer on a team whose available
\* budget (tokens - totalSpent) is not negative leaves it not negative.
C4_AvailableBudgetNeverNegative ==
  [][\A t \in TeamIds :
       ( /\ Len(teams'[t].players) > Len(teams[t].players)
         /\ teams[t].tokens - teams[t].totalSpent >= 0 )
       => teams'[t].tokens - teams'[t].totalSpent >= 0]_vars

\* C5: after any sequence of addPlayer and removePlayer calls, whether they
\* succeed or fail, the totalSpent of every team is the sum of the amounts of
\* the entries of its roster.
C5_TotalSpentIsRosterSum ==
  \A t \in TeamIds : teams[t].totalSpent = SumAmounts(teams[t].players)

\* C5 witness: team2 holds Q alone, bought for 40 of its 100 tokens;
\* team1 has spent 60 on one player.
C5_Witness ==
  /\ Len(teams["team2"].players) = 1
  /\ teams["team2"].players[1] = [playerId |-> "Q", amount |-> 40]
  /\ teams["team2"].totalSpent = 40
  /\ teams["team2"].tokens = 60
  /\ Len(teams["team1"].players) = 1
  /\ teams["team1"].totalSpent = 60

\* The three requests of the scenario, each from a user allowed to bid for the
\* team: A is 40 for team1, B is 50 for team2, C is 60 for team2, all for P.
IsBidA(r) == r.teamId = "team1" /\ r.playerId = "P" /\ r.amount = 40
IsBidB(r) == r.teamId = "team2" /\ r.playerId = "P" /\ r.amount = 50
IsBidC(r) == r.teamId = "team2" /\ r.playerId = "P" /\ r.amount = 60

BidOf(i) == {b \in bids : b.id = i}

\* C7: with minBid 40, minBidIncrement 20 and P the current player without a
\* bid, the requests A, B, C in that order end as follows: A is accepted and
\* leads; then B is turned down with a required amount of 60 and A still leads;
\* then C is accepted and leads, and A is no longer winning.
C7_ScenarioOutcome ==
  /\ ( /\ Len(req) >= 1 /\ IsBidA(req[1]) /\ req[1].pc = "done" )
       => /\ req[1].result = "Created"
          /\ Len(req) = 1 =>
               /\ BidOf(1) = {[id |-> 1, playerId |-> "P", teamId |-> "team1",
                               bidderId |-> req[1].actor.userId, amount |-> 40,
                               isWinning |-> TRUE]}
               /\ auction.currentBid = 1
  /\ ( /\ Len(req) >= 2 /\ IsBidA(req[1]) /\ IsBidB(req[2]) /\ req[2].pc = "done" )
       => /\ req[2].result = "BidTooLow"
          /\ req[2].required = 60
          /\ BidOf(2) = {}
          /\ Len(req) = 2 =>
               /\ \A b \in BidOf(1) : b.isWinning
               /\ auction.currentBid = 1
  /\ ( /\ Len(req) = 3 /\ IsBidA(req[1]) /\ IsBidB(req[2]) /\ IsBidC(req[3])
       /\ req[3].pc = "done" )
       => /\ req[3].result = "Created"
          /\ \E b \in BidOf(3) : b.isWinning /\ b.amount = 60 /\ b.teamId = "team2"
          /\ \E b \in BidOf(1) : ~b.isWinning
          /\ C1_WinningIds = {3}
          /\ auction.currentBid = 3
          /\ auction.bidHistory = <<1, 3>>

\* C7 witness: the three requests of the scenario have been answered.
C7_Witness ==
  /\ Len(req) = 3
  /\ IsBidA(req[1]) /\ IsBidB(req[2]) /\ IsBidC(req[3])
  /\ req[3].result = "Created"
  /\ auction.settings.minBid = 40
  /\ auction.settings.minBidIncrement = 20

\* The user with a user id.
UserOf(userId) == CHOOSE actor \in Actors \cup {[userId |-> "u3", role |-> CAPTAIN]} :
                    actor.userId = userId

\* The rule of the claim: the user is the team's captain, the team's manager, an
\* admin or an auctioneer.
MayBidFor(actor, team) ==
  \/ actor.userId = team.captainId
  \/ actor.userId = team.managerId
  \/ actor.role \in {ADMIN, AUCTIONEER}

\* C10: every Bid was placed for its team by a user the rule allows; a request
\* for an existing team from an authenticated user the rule does not allow is
\* answered Forbidden, and its arrival changes no Bid document and no field of
\* the auction document.
C10_OnlyAllowedUsersBid ==
  /\ [](\A b \in bids : MayBidFor(UserOf(b.bidderId), teams[b.teamId]))
  /\ [](\A i \in DOMAIN req :
          ( /\ req[i].teamId # Null
            /\ ~MayBidFor(req[i].actor, teams[req[i].teamId]) )
          => req[i].result = "Forbidden" /\ BidOf(i) = {})
  /\ [][\A i \in DOMAIN req' :
          (i \notin DOMAIN req /\ req'[i].result = "Forbidden")
          => bids' = bids /\ auction' = auction]_vars

\* C10 witness: a viewer and the other team's captain were answered Forbidden;
\* the auctioneer's and the team manager's bids were accepted.
C10_Witness ==
  /\ \E i \in DOMAIN req : req[i].result = "Forbidden" /\ req[i].actor = Viewer
  /\ \E b \in bids : b.bidderId = Auctioneer.userId /\ b.teamId = "team1"
  /\ \E b \in bids : b.bidderId = Manager2.userId /\ b.teamId = "team2"

\* C11: no Bid was placed by a user whose role is viewer, and every PUT or
\* DELETE request of a viewer on the auction was answered Forbidden and wrote
\* nothing to the auction.
C11_ViewerNeverBidsNorControls ==
  /\ \A b \in bids : UserOf(b.bidderId).role # VIEWER
  /\ \A i \in DOMAIN ctl :
       ctl[i].actor.role = VIEWER => ctl[i].pc = "done" /\ ctl[i].result = "Forbidden"

\* C12: a request that reaches the budget check with an amount above the
\* available budget (tokens - totalSpent) of its team is answered
\* InsufficientBudget, and every Bid is created with an amount of at most the
\* available budget its team has at that moment.
C12_AcceptedWithinBudget ==
  [][/\ \A i \in DOMAIN req :
          ( /\ req[i].pc = "auction"
            /\ req'[i] # req[i]
            /\ auction.status = "active"
            /\ auction.currentPlayer = req[i].playerId
            /\ req[i].amount > teams[req[i].teamId].tokens
                                 - teams[req[i].teamId].totalSpent )
          => req'[i].result = "InsufficientBudget"
     /\ \A b \in NewBids :
          b.amount <= teams[b.teamId].tokens - teams[b.teamId].totalSpent]_vars

\* C13: when a bid request is answered as accepted, its Bid has isWinning =
\* true, every other Bid for the same player has isWinning = false,
\* auction.currentBid is that Bid, and auction.bidHistory is the history before
\* the acceptance with that Bid appended.
C13_AcceptedBidLeads ==
  [][\A i \in DOMAIN req :
       (req[i].result # "Created" /\ req'[i].result = "Created")
       => /\ \E b \in bids' : b.id = i /\ b.isWinning
          /\ \A b \in bids' :
               (b.playerId = req[i].playerId /\ b.id # i) => ~b.isWinning
          /\ auction'.currentBid = i
          /\ auction'.bidHistory = Append(auction.bidHistory, i)]_vars

\* ---------------------------------------------------------------------------
\* Auction lifecycle: the instance methods of the auction document
\* (src/src/lib/config/database.ts 475-534) and the routes that change its
\* status.
\* ---------------------------------------------------------------------------

MaxControlCalls == 3

Statuses == {"pending", "active", "paused", "completed", "cancelled"}

Range(seq) == {seq[i] : i \in DOMAIN seq}

\* The virtual remainingPlayers: the players, in their order, that are in none
\* of soldPlayers, unsoldPlayers, skippedPlayers.
InQueue(a, p) ==
  p \notin a.soldPlayers /\ p \notin a.unsoldPlayers /\ p \notin a.skippedPlayers

remainingPlayers(a) == SelectSeq(a.players, LAMBDA p : InQueue(a, p))

\* sortPlayers(): declared on the document (database.ts 285) and awaited by
\* start(), with no implementation in the sources.  It reorders the player
\* queue per the configured strategy; order is the queue that strategy yields,
\* a permutation of the players (the randomized strategy can yield any).
sortPlayers(a, order) == [a EXCEPT !.players = order]

\* addPlayer(playerId): push unless already listed, then save.
AfterAddAuctionPlayer(a, p) ==
  IF p \in Range(a.players) THEN a ELSE [a EXCEPT !.players = Append(@, p)]

\* updateStatus(newStatus) and setCurrentPlayer(playerId): assign and save.
AfterUpdateStatus(a, s) == [a EXCEPT !.status = s]

AfterSetCurrentPlayer(a, p) == [a EXCEPT !.currentPlayer = p]

\* The guards of start() letting a paused auction through.
StartError_PausedAllowed(a) ==
  IF a.status \notin {"pending", "paused"} THEN "NotPending"
  ELSE IF Len(a.players) = 0 THEN "NoPlayers"
  ELSE Null

\* start(): the two guards, in the order of the code.
StartError(a) ==
  IF a.status # "pending" THEN "NotPending"
  ELSE IF Len(a.players) = 0 THEN "NoPlayers"
  ELSE Null

\* start() taking the last of the remaining queue instead of its head.
Started_LastOfQueue(a, order) ==
  LET sorted == sortPlayers(a, order)
      remaining == remainingPlayers(sorted)
      armed == IF Len(remaining) > 0
                 THEN [sorted EXCEPT !.currentPlayer = remaining[Len(remaining)],
                                     !.timer.isActive = TRUE,
                                     !.timer.remaining = sorted.timer.duration]
                 ELSE sorted
  IN  [armed EXCEPT !.status = "active", !.logs = Append(@, "auction_started")]

\* start() past its guards: sort, take the head of the remaining queue if there
\* is one and arm the timer from timer.duration, then status, log and save.
Started(a, order) ==
  LET sorted == sortPlayers(a, order)
      remaining == remainingPlayers(sorted)
      armed == IF Len(remaining) > 0
                 THEN [sorted EXCEPT !.currentPlayer = remaining[1],
                                     !.timer.isActive = TRUE,
                                     !.timer.remaining = sorted.timer.duration]
                 ELSE sorted
  IN  [armed EXCEPT !.status = "active", !.logs = Append(@, "auction_started")]

MethodCall(kind, value, result) ==
  [kind |-> kind, pc |-> "done", actor |-> Anonymous, field |-> Null,
   value |-> value, result |-> result]

Start(order) ==
  /\ order \in Orders(Range(auction.players))
  /\ auction' = IF StartError(auction) = Null THEN Started(auction, order)
                ELSE auction
  /\ ctl' = Append(ctl, MethodCall("start", Null,
                                   IF StartError(auction) = Null THEN "OK"
                                   ELSE StartError(auction)))
  /\ UNCHANGED <<bids, teams, req, rooms, events>>

AddAuctionPlayer(p) ==
  /\ auction' = AfterAddAuctionPlayer(auction, p)
  /\ ctl' = Append(ctl, MethodCall("addPlayer", p, "OK"))
  /\ UNCHANGED <<bids, teams, req, rooms, events>>

UpdateStatus(s) ==
  /\ auction' = AfterUpdateStatus(auction, s)
  /\ ctl' = Append(ctl, MethodCall("updateStatus", s, "OK"))
  /\ UNCHANGED <<bids, teams, req, rooms, events>>

SetCurrentPlayer(p) ==
  /\ auction' = AfterSetCurrentPlayer(auction, p)
  /\ ctl' = Append(ctl, MethodCall("setCurrentPlayer", p, "OK"))
  /\ UNCHANGED <<bids, teams, req, rooms, events>>

\* A created auction: POST /api/auctions hands the request body to
\* createAuction, which validates it against the schema and saves it; status
\* defaults to 'pending' and currentPlayer to none.
CreatedAuction(players, unsold, duration, timerDuration) ==
  [InitAuction EXCEPT !.status = "pending", !.currentPlayer = Null,
                      !.players = players, !.unsoldPlayers = unsold,
                      !.timer.duration = duration,
                      !.settings.timerDuration = timerDuration]

ControlInit ==
  /\ \E players \in {<<>>, AuctionPlayers} :
       \E unsold \in SUBSET Range(players) :
         \E duration \in {MinTimerDuration, DefaultTimerDuration} :
           \E timerDuration \in {MinTimerDuration, DefaultTimerDuration} :
             auction = CreatedAuction(players, unsold, duration, timerDuration)
  /\ bids = {}
  /\ teams = InitTeams
  /\ req = <<>>
  /\ ctl = <<>>
  /\ rooms = [s \in Sockets |-> {}]
  /\ events = <<>>

ControlNext ==
  \/ /\ Len(ctl) < MaxControlCalls
     /\ \/ \E order \in UNION {Orders(S) : S \in SUBSET PlayerIds} : Start(order)
        \/ \E p \in PlayerIds : AddAuctionPlayer(p)
        \/ \E s \in Statuses : UpdateStatus(s)
        \/ \E p \in {"Q", "R"} : SetCurrentPlayer(p)
        \/ \E actor \in {Admin, Viewer} : UpdateAuction(actor, "status", "active")
        \/ \E actor \in {Admin, Viewer} : CancelAuction(actor)
  \/ \E i \in DOMAIN ctl : SaveCancel(i)

ControlSpec == ControlInit /\ [][ControlNext]_vars

\* ---------------------------------------------------------------------------
\* Claims about the auction lifecycle.
\* ---------------------------------------------------------------------------

\* The step is a call of the method or route named kind.
Called(kind) ==
  /\ Len(ctl') = Len(ctl) + 1
  /\ ctl'[Len(ctl')].kind = kind

\* C14: start() on a pending auction with at least one player succeeds, sets
\* status to 'active', keeps the same players in the queue, and sets
\* currentPlayer to the first element of the remaining queue in the configured
\* order (the first player of the sorted queue that is not sold, unsold or
\* skipped).
C14_StartFromPending ==
  [][(Called("start") /\ auction.status = "pending" /\ Len(auction.players) >= 1)
     => /\ ctl'[Len(ctl')].result = "OK"
        /\ auction'.status = "active"
        /\ Range(auction'.players) = Range(auction.players)
        /\ Len(remainingPlayers(auction')) > 0
             => auction'.currentPlayer = remainingPlayers(auction')[1]]_vars

\* A pending auction of P then Q was started with the queue sorted to Q then P,
\* and Q is the current player.
C14_Witness ==
  /\ Len(ctl) = 1
  /\ ctl[1].kind = "start" /\ ctl[1].result = "OK"
  /\ auction.status = "active"
  /\ auction.players = <<"Q", "P">>
  /\ auction.unsoldPlayers = {}
  /\ auction.currentPlayer = "Q"

\* C15: start() on an auction that is active, paused, completed or cancelled
\* fails with an error and leaves the auction (status, currentPlayer, timer,
\* logs and every other field) unchanged.
C15_StartOutsidePendingFails ==
  [][(Called("start")
      /\ auction.status \in {"active", "paused", "completed", "cancelled"})
     => /\ ctl'[Len(ctl')].result = "NotPending"
        /\ auction'.status = auction.status
        /\ auction'.currentPlayer = auction.currentPlayer
        /\ auction'.timer = auction.timer
        /\ auction'.logs = auction.logs
        /\ auction' = auction]_vars

\* start() was refused on a paused auction that has players in its queue.
C15_Witness ==
  /\ Len(ctl) = 2
  /\ ctl[1].kind = "updateStatus" /\ ctl[1].value = "paused"
  /\ ctl[2].kind = "start" /\ ctl[2].result = "NotPending"
  /\ auction.status = "paused"
  /\ Len(remainingPlayers(auction)) = 2
  /\ auction.currentPlayer = Null /\ auction.logs = <<>>

\* C16: start() on a pending auction with no eligible player (no players, or
\* every listed player sold, unsold or skipped) fails and changes nothing, so
\* start() never leaves the auction 'active' with no current player.
C16_EmptyPoolRejected ==
  [][(Called("start") /\ auction.status = "pending"
      /\ \A p \in Range(auction.players) : ~InQueue(auction, p))
     => /\ ctl'[Len(ctl')].result # "OK"
        /\ auction' = auction
        /\ ~(auction'.status = "active" /\ auction'.currentPlayer = Null)]_vars

\* C17: after a successful start() that put a player up, the timer is active
\* and timer.remaining is settings.timerDuration.
C17_TimerArmedToSettings ==
  [][(Called("start") /\ ctl'[Len(ctl')].result = "OK"
      /\ Len(remainingPlayers(auction')) > 0)
     => /\ auction'.timer.isActive
        /\ auction'.timer.remaining = auction'.settings.timerDuration]_vars

\* C18: once the status is 'completed' or 'cancelled' no step changes it.
C18_TerminalStatusKept ==
  [][auction.status \in {"completed", "cancelled"}
     => auction'.status = auction.status]_vars

\* C19: a DELETE by an auctioneer or admin that finds the auction pending,
\* active or paused goes on to save it, and that save sets status 'cancelled'
\* and answers success; a DELETE that finds it completed is answered 400 and
\* leaves the auction unchanged.
C19_CancelOutcome ==
  [][/\ (Called("cancel") /\ IsAuctioneerOrAdmin(ctl'[Len(ctl')].actor))
          => /\ auction' = auction
             /\ auction.status \in {"pending", "active", "paused"}
                  => ctl'[Len(ctl')].pc = "save"
             /\ auction.status = "completed"
                  => /\ ctl'[Len(ctl')].pc = "done"
                     /\ ctl'[Len(ctl')].result = "BadRequest"
     /\ \A i \in DOMAIN ctl :
          (ctl[i].kind = "cancel" /\ ctl[i].pc = "save" /\ ctl'[i].pc = "done")
          => /\ auction'.status = "cancelled"
             /\ ctl'[i].result = "OK"]_vars

\* The admin cancelled the pending auction; after the status was set to
\* completed the admin's second DELETE was answered 400.
C19_Witness ==
  /\ Len(ctl) = 3
  /\ ctl[1].kind = "cancel" /\ ctl[1].result = "OK"
  /\ ctl[2].kind = "updateStatus" /\ ctl[2].value = "completed"
  /\ ctl[3].kind = "cancel" /\ ctl[3].result = "BadRequest"
  /\ auction.status = "completed"

Memberships(a, p) ==
  Cardinality({k \in {"remaining", "sold", "unsold", "skipped"} :
                 \/ k = "remaining" /\ p \in Range(remainingPlayers(a))
                 \/ k = "sold" /\ p \in a.soldPlayers
                 \/ k = "unsold" /\ p \in a.unsoldPlayers
                 \/ k = "skipped" /\ p \in a.skippedPlayers})

\* C20: each player is in at most one of remaining, soldPlayers, unsoldPlayers,
\* skippedPlayers, and currentPlayer, when set, is one of the auction's players
\* and in none of soldPlayers, unsoldPlayers, skippedPlayers.
C20_QueuesPartitionPlayers ==
  /\ \A p \in RosterPlayerIds : Memberships(auction, p) <= 1
  /\ auction.currentPlayer # Null
       => /\ auction.currentPlayer \in Range(auction.players)
          /\ InQueue(auction, auction.currentPlayer)

\* ---------------------------------------------------------------------------
\* Claims about the order of the checks of a bid request.
\* ---------------------------------------------------------------------------

\* The amount a request had to reach when it arrived: requests run one at a
\* time, so the Bids stored then are those of the requests before it.
RequiredOnArrival(i) ==
  RequiredAmount(findHighestBidForPlayer({b \in bids : b.id < i}, req[i].playerId),
                 auction.settings.minBid, auction.settings.minBidIncrement)

\* C27: errors follow the protocol order, BidTooLow before InsufficientBudget:
\* a request rejected as InsufficientBudget was not below the required amount
\* (one that is both too low and too expensive is rejected as BidTooLow).
C27_ErrorsInProtocolOrder ==
  \A i \in DOMAIN req :
    req[i].result = "InsufficientBudget" => req[i].amount >= RequiredOnArrival(i)

\* ---------------------------------------------------------------------------
\* The budget ledger with its calls recorded: each Team.addPlayer and
\* Team.removePlayer call and whether it threw.
\* ---------------------------------------------------------------------------

MaxLedgerCalls == 3

\* The error addPlayer throws for the call, Null when it passes its guards and
\* the save.
AddPlayerError(team, playerId, amount) ==
  IF playerId \in RosterIds(team) THEN "AlreadyInTeam"
  ELSE IF Len(team.players) >= team.maxPlayers THEN "RosterFull"
  ELSE IF amount > availableBudget(team) THEN "InsufficientBudget"
  ELSE IF ~ValidTeam(Purchased(team, playerId, amount)) THEN "ValidationError"
  ELSE Null

LedgerCall(kind, t, playerId, amount, result) ==
  [kind |-> kind, pc |-> "done", actor |-> Anonymous, field |-> t,
   value |-> playerId, amount |-> amount, result |-> result]

CommitPurchase(t, playerId, amount) ==
  /\ teams' = [teams EXCEPT ![t] = AfterAddPlayer(@, playerId, amount)]
  /\ ctl' = Append(ctl, LedgerCall("Team.addPlayer", t, playerId, amount,
                                   IF AddPlayerError(teams[t], playerId, amount) = Null
                                     THEN "OK"
                                     ELSE AddPlayerError(teams[t], playerId, amount)))
  /\ UNCHANGED <<auction, bids, req, rooms, events>>

ReleasePlayer(t, playerId) ==
  /\ teams' = [teams EXCEPT ![t] = AfterRemovePlayer(@, playerId)]
  /\ ctl' = Append(ctl, LedgerCall("Team.removePlayer", t, playerId, 0,
                                   IF playerId \in RosterIds(teams[t]) THEN "OK"
                                   ELSE "NotInTeam"))
  /\ UNCHANGED <<auction, bids, req, rooms, events>>

PurchaseNext ==
  /\ Len(ctl) < MaxLedgerCalls
  /\ \/ \E t \in TeamIds, p \in RosterPlayerIds, a \in {20, 40, 60} :
          CommitPurchase(t, p, a)
     \/ \E t \in TeamIds, p \in RosterPlayerIds : ReleasePlayer(t, p)

PurchaseSpec == Init /\ [][PurchaseNext]_vars

\* C28: a Team.addPlayer call with an amount above the team's availableBudget,
\* or for a player already in the roster, or with the roster at maxPlayers,
\* fails and leaves the team (players, totalSpent, tokens) unchanged.
C28_PurchaseRevalidated ==
  [][\A t \in TeamIds :
       ( /\ Called("Team.addPlayer")
         /\ ctl'[Len(ctl')].field = t
         /\ \/ ctl'[Len(ctl')].amount > teams[t].tokens - teams[t].totalSpent
            \/ ctl'[Len(ctl')].value \in RosterIds(teams[t])
            \/ Len(teams[t].players) >= teams[t].maxPlayers )
       => /\ ctl'[Len(ctl')].result # "OK"
          /\ teams'[t].players = teams[t].players
          /\ teams'[t].totalSpent = teams[t].totalSpent
          /\ teams'[t].tokens = teams[t].tokens]_vars

\* team1, with 50 tokens and nothing spent, was refused a purchase of 60 and is
\* as it was.
C28_Witness ==
  /\ Len(ctl) = 1
  /\ ctl[1].kind = "Team.addPlayer" /\ ctl[1].field = "team1"
  /\ ctl[1].amount = 60 /\ ctl[1].result = "InsufficientBudget"
  /\ teams = InitTeams

\* C30: removePlayer undoes addPlayer: after an accepted addPlayer(p, amount),
\* removePlayer(p) gives back the tokens, totalSpent and roster of before.
C30_RemoveUndoesAdd ==
  [][\A t \in TeamIds :
       ( /\ Called("Team.addPlayer")
         /\ ctl'[Len(ctl')].field = t
         /\ ctl'[Len(ctl')].result = "OK" )
       => LET undone == AfterRemovePlayer(teams'[t], ctl'[Len(ctl')].value)
          IN  /\ teams'[t] # teams[t]
              /\ undone.tokens = teams[t].tokens
              /\ undone.totalSpent = teams[t].totalSpent
              /\ undone.players = teams[t].players]_vars

\* team2, holding Q, bought P for 40 and gave it back: it has Q alone and its
\* 100 tokens less Q's 20 again.
C30_Witness ==
  /\ Len(ctl) = 3
  /\ ctl[1].kind = "Team.addPlayer" /\ ctl[1].value = "Q" /\ ctl[1].result = "OK"
  /\ ctl[2].kind = "Team.addPlayer" /\ ctl[2].value = "P" /\ ctl[2].result = "OK"
  /\ ctl[2].amount = 40 /\ ctl[2].field = "team2"
  /\ ctl[3].kind = "Team.removePlayer" /\ ctl[3].value = "P" /\ ctl[3].result = "OK"
  /\ ctl[3].field = "team2"
  /\ teams["team2"].players = <<[playerId |-> "Q", amount |-> 20]>>
  /\ teams["team2"].totalSpent = 20 /\ teams["team2"].tokens = 80

\* ---------------------------------------------------------------------------
\* The role hierarchy (src/src/lib/utils/auth.ts 77-89).
\* ---------------------------------------------------------------------------

MaxRoleChecks == 1

KnownRoles == {ADMIN, AUCTIONEER, CAPTAIN, MANAGER, BIDDER, VIEWER}

\* Role strings that are no key of roleHierarchy: "guest" is no property of the
\* object at all, "toString" is a property it inherits from Object.prototype.
UnknownRoles == {"guest", "toString"}

RoleStrings == KnownRoles \cup UnknownRoles

\* roleHierarchy[role] || 0: the number of a known role, 0 for a string that is
\* no property, and for an inherited property the function found there, which
\* compares as NaN with a number and as equal with itself.  NaN stands for
\* that value; it is no rank.
NaN == -1

roleHierarchy(role) ==
  CASE role = ADMIN -> 5
    [] role = AUCTIONEER -> 4
    [] role = CAPTAIN -> 3
    [] role = MANAGER -> 3
    [] role = BIDDER -> 2
    [] role = VIEWER -> 1
    [] role = "toString" -> NaN
    [] OTHER -> 0

\* The comparison without equality.
isRoleHigherOrEqual_Strict(userRole, targetRole) ==
  LET x == roleHierarchy(userRole)
      y == roleHierarchy(targetRole)
  IN  IF x = NaN \/ y = NaN THEN FALSE ELSE x > y

isRoleHigherOrEqual(userRole, targetRole) ==
  LET x == roleHierarchy(userRole)
      y == roleHierarchy(targetRole)
  IN  IF x = NaN \/ y = NaN THEN userRole = targetRole ELSE x >= y

\* A check of three roles against each other: the answers of the function for
\* each ordered pair of them.
RoleCheck(a, b, c) ==
  [kind |-> "isRoleHigherOrEqual", pc |-> "done", actor |-> Anonymous,
   field |-> Null, value |-> <<a, b, c>>,
   result |-> [x \in {a, b, c}, y \in {a, b, c} |-> isRoleHigherOrEqual(x, y)]]

CheckRoles(a, b, c) ==
  /\ ctl' = Append(ctl, RoleCheck(a, b, c))
  /\ UNCHANGED <<auction, bids, teams, req, rooms, events>>

RoleNext ==
  /\ Len(ctl) < MaxRoleChecks
  /\ \E a \in RoleStrings, b \in RoleStrings, c \in RoleStrings : CheckRoles(a, b, c)

RoleSpec == Init /\ [][RoleNext]_vars

\* The place of a role in the spec's list, highest first; captain and manager
\* share a place.
Privilege(role) ==
  CASE role = ADMIN -> 5
    [] role = AUCTIONEER -> 4
    [] role \in {CAPTAIN, MANAGER} -> 3
    [] role = BIDDER -> 2
    [] role = VIEWER -> 1

\* C26 as stated: over the six roles the comparison is reflexive, transitive,
\* total and antisymmetric, ranks the roles as the spec lists them, and never
\* ranks an unknown role at or above a known one.
C26_TotalOrderOnRoles ==
  \A i \in DOMAIN ctl :
    LET a == ctl[i].value[1]
        b == ctl[i].value[2]
        c == ctl[i].value[3]
        ge == ctl[i].result
    IN  /\ a \in KnownRoles => ge[a, a]
        /\ {a, b, c} \subseteq KnownRoles => (ge[a, b] /\ ge[b, c] => ge[a, c])
        /\ {a, b} \subseteq KnownRoles => (ge[a, b] \/ ge[b, a])
        /\ {a, b} \subseteq KnownRoles => (ge[a, b] /\ ge[b, a] => a = b)
        /\ {a, b} \subseteq KnownRoles => (ge[a, b] <=> Privilege(a) >= Privilege(b))
        /\ (a \in UnknownRoles /\ b \in KnownRoles) => ~ge[a, b]

\* C26 amended: over the six roles the comparison is reflexive, transitive and
\* total, ranks admin > auctioneer > captain = manager > bidder > viewer, two
\* roles rank each other only if they are the same role or captain and
\* manager, and an unknown role is never ranked at or above a known one.
C26_TotalPreorderOnRoles ==
  \A i \in DOMAIN ctl :
    LET a == ctl[i].value[1]
        b == ctl[i].value[2]
        c == ctl[i].value[3]
        ge == ctl[i].result
    IN  /\ a \in KnownRoles => ge[a, a]
        /\ {a, b, c} \subseteq KnownRoles => (ge[a, b] /\ ge[b, c] => ge[a, c])
        /\ {a, b} \subseteq KnownRoles => (ge[a, b] \/ ge[b, a])
        /\ {a, b} \subseteq KnownRoles
             => (ge[a, b] /\ ge[b, a] => (a = b \/ {a, b} = {CAPTAIN, MANAGER}))
        /\ {a, b} \subseteq KnownRoles => (ge[a, b] <=> Privilege(a) >= Privilege(b))
        /\ (a \in UnknownRoles /\ b \in KnownRoles) => ~ge[a, b]

\* The check of captain, manager and the inherited name: captain and manager
\* rank each other, and the unknown name ranks neither.
C26_Witness ==
  /\ Len(ctl) = 1
  /\ ctl[1].value = <<CAPTAIN, MANAGER, "toString">>
  /\ ctl[1].result[CAPTAIN, MANAGER] /\ ctl[1].result[MANAGER, CAPTAIN]
  /\ ~ctl[1].result["toString", CAPTAIN]

\* ---------------------------------------------------------------------------
\* Failures inside the bid handler: Bid.createBid or auction.save() throws
\* and the catch block of the handler (part_002 179-194) answers.
\* ---------------------------------------------------------------------------

\* Bid.createBid throws: bid.validate() rejects the document built from the
\* request body (a ValidationError, answered 400: notes longer than 500
\* characters, say), or bid.save() fails (answered 500).  Nothing is stored by
\* the call; what the handler stored before stays.
FailCreateBid(i, code) ==
  /\ req[i].pc = "create"
  /\ req' = [req EXCEPT ![i] = Respond(@, code)]
  /\ UNCHANGED <<auction, bids, teams, ctl, rooms, events>>

\* auction.save() throws after the Bid was created.
FailSaveAuction(i) ==
  /\ req[i].pc = "save"
  /\ req' = [req EXCEPT ![i] = Respond(@, "ServerError")]
  /\ UNCHANGED <<auction, bids, teams, ctl, rooms, events>>

\* One bid request at a time, each of which may fail in its writes.
FailureNext ==
  \/ /\ Len(req) < MaxSequentialBids
     /\ Quiescent
     /\ \E actor \in {Captain1, Manager2}, t \in TeamIds, a \in {40, 60} :
          PlaceBid(actor, t, "P", a)
  \/ \E i \in DOMAIN req : CheckAuction(i)
  \/ \E i \in DOMAIN req : FindHighest(i)
  \/ \E i \in DOMAIN req : ClearWinners(i)
  \/ \E i \in DOMAIN req : CreateBid(i)
  \/ \E i \in DOMAIN req : SaveAuction(i)
  \/ \E i \in DOMAIN req, code \in {"ValidationError", "ServerError"} :
       FailCreateBid(i, code)
  \/ \E i \in DOMAIN req : FailSaveAuction(i)

FailureSpec == Init /\ [][FailureNext]_vars

\* The step answers request i with an error.
EndsInError(i) ==
  /\ req[i].pc # "done"
  /\ req'[i].pc = "done"
  /\ req'[i].result # "Created"

\* C21: a bid request that ends in an error leaves no trace: no Bid of the
\* request is stored, the winning flag the request found set for the player is
\* still set, and auction.currentBid and auction.bidHistory do not hold the
\* request's bid.
C21_FailedBidLeavesNoTrace ==
  [][\A i \in DOMAIN req :
       EndsInError(i)
       => /\ \A b \in bids' : b.id # i
          /\ req[i].highest # 0
               => \E b \in bids' : b.playerId = req[i].playerId /\ b.isWinning
          /\ auction'.currentBid # i
          /\ \A k \in DOMAIN auction'.bidHistory : auction'.bidHistory[k] # i]_vars

\* ---------------------------------------------------------------------------
\* The socket server (src/unnamed/part_013) and the auction page that talks
\* to it (src/src/app/dashboard/auction/[id]/page.tsx).
\*
\* The io.use middleware takes the user from the token if there is one and
\* lets every connection in; no handler reads the socket's user except to
\* label chat messages and join notices, so the handlers below do not depend on
\* which socket sent the message.  events follows the six events the server
\* sends to a whole room; the user_joined and user_left notices, sent to the
\* others in the room, are not followed.
\* ---------------------------------------------------------------------------

MaxEvents == 2
MaxSocketBids == 1

\* io.emit: every connected socket.
Recipients_Everyone(rs, auctionId) == Sockets

\* io.to(`auction_${auctionId}`): the sockets in the room now.
Recipients(rs, auctionId) == {s \in Sockets : auctionId \in rs[s]}

Emitted(evs, rs, auctionId, type, payload) ==
  Append(evs, [type |-> type, room |-> auctionId, payload |-> payload,
               to |-> Recipients(rs, auctionId)])

\* socket.on('join_auction'), socket.on('leave_auction'), and the disconnect of
\* a socket, which takes it out of its rooms.
JoinAuction(s, auctionId) ==
  /\ rooms' = [rooms EXCEPT ![s] = @ \cup {auctionId}]
  /\ UNCHANGED <<auction, bids, teams, req, ctl, events>>

LeaveAuction(s, auctionId) ==
  /\ rooms' = [rooms EXCEPT ![s] = @ \ {auctionId}]
  /\ UNCHANGED <<auction, bids, teams, req, ctl, events>>

Disconnect(s) ==
  /\ rooms' = [rooms EXCEPT ![s] = {}]
  /\ UNCHANGED <<auction, bids, teams, req, ctl, events>>

\* The relaying handlers: each sends what the client's message carries to the
\* room the message names.
OnSendMessage(s, auctionId, message) ==
  /\ events' = Emitted(events, rooms, auctionId, "new_message", message)
  /\ UNCHANGED <<auction, bids, teams, req, ctl, rooms>>

OnPlaceBid(s, auctionId, bid) ==
  /\ events' = Emitted(events, rooms, auctionId, "bid_update", bid)
  /\ UNCHANGED <<auction, bids, teams, ctl, rooms>>

OnAuctionStatusUpdate(s, auctionId, status) ==
  /\ events' = Emitted(events, rooms, auctionId, "auction_status_changed", status)
  /\ UNCHANGED <<auction, bids, teams, req, ctl, rooms>>

OnPlayerUpdate(s, auctionId, player) ==
  /\ events' = Emitted(events, rooms, auctionId, "current_player_changed", player)
  /\ UNCHANGED <<auction, bids, teams, req, ctl, rooms>>

OnTimerUpdate(s, auctionId, remaining) ==
  /\ events' = Emitted(events, rooms, auctionId, "timer_tick", remaining)
  /\ UNCHANGED <<auction, bids, teams, req, ctl, rooms>>

OnPlayerSold(s, auctionId, player) ==
  /\ events' = Emitted(events, rooms, auctionId, "player_sold_update", player)
  /\ UNCHANGED <<auction, bids, teams, req, ctl, rooms>>

\* placeBid of the auction page: after the 201 response of POST /api/bids it
\* sends place_bid with the Bid of the response.
PagePlaceBid(i) ==
  /\ req[i].pc = "done"
  /\ req[i].result = "Created"
  /\ req' = [req EXCEPT ![i].pc = "emitted"]
  /\ OnPlaceBid("s1", "A", i)

\* A client that sends place_bid on its own.
ClientPlaceBid(s, auctionId, bid) ==
  /\ OnPlaceBid(s, auctionId, bid)
  /\ UNCHANGED req

PageIdle == \A i \in DOMAIN req : req[i].pc \in {"done", "emitted"}

\* The rooms each socket joins and leaves: the page of team1's captain shows
\* auction A, the other connection watches A or B.
Visits == {<<"s1", "A">>, <<"s2", "A">>, <<"s2", "B">>}

\* The captain of team1 bids 40 for P from the auction page, one request at a
\* time, while the sockets join and leave rooms and the connection without
\* token sends socket messages.
SocketNext ==
  \/ \E v \in Visits : JoinAuction(v[1], v[2])
  \/ \E v \in Visits : LeaveAuction(v[1], v[2])
  \/ Disconnect("s2")
  \/ /\ Len(req) < MaxSocketBids
     /\ PageIdle
     /\ PlaceBid(Captain1, "team1", "P", 40)
  \/ \E i \in DOMAIN req : CheckAuction(i)
  \/ \E i \in DOMAIN req : FindHighest(i)
  \/ \E i \in DOMAIN req : CreateBid(i)
  \/ \E i \in DOMAIN req : SaveAuction(i)
  \/ /\ Len(events) < MaxEvents
     /\ \/ \E i \in DOMAIN req : PagePlaceBid(i)
        \/ ClientPlaceBid("s2", "A", 1)
        \/ \E a \in AuctionIds : OnSendMessage("s2", a, "hello")
        \/ OnAuctionStatusUpdate("s2", "A", "completed")
        \/ OnPlayerUpdate("s2", "A", "Q")
        \/ OnTimerUpdate("s2", "A", 0)
        \/ OnPlayerSold("s2", "A", "P")

SocketSpec == Init /\ [][SocketNext]_vars

\* ---------------------------------------------------------------------------
\* Claims about the events sent to the rooms.
\* ---------------------------------------------------------------------------

\* The step emits an event; LastEvent is that event.
Emits == Len(events') = Len(events) + 1

LastEvent == events'[Len(events')]

\* C22: a bid_update for a bid is emitted only after the bid has committed:
\* when the event is emitted the request that placed the bid has been answered
\* 201, its Bid is stored and auction.bidHistory holds it.
C22_BidUpdateAfterCommit ==
  [][(Emits /\ LastEvent.type = "bid_update")
     => /\ LastEvent.payload \in DOMAIN req
        /\ req[LastEvent.payload].result = "Created"
        /\ \E b \in bids : b.id = LastEvent.payload
        /\ \E k \in DOMAIN auction.bidHistory :
             auction.bidHistory[k] = LastEvent.payload]_vars

\* C23: an event emitted for an auction is delivered only to sockets that are
\* in the room of that auction (have joined it and not left it since).
C23_DeliveryIsRoomScoped ==
  [][Emits => \A s \in LastEvent.to : LastEvent.room \in rooms[s]]_vars

\* s1 is in room A and s2 in room B only; a message for A went to s1 alone and
\* a message for B to s2 alone.
C23_Witness ==
  /\ rooms["s1"] = {"A"} /\ rooms["s2"] = {"B"}
  /\ Len(events) = 2
  /\ events[1].type = "new_message" /\ events[1].room = "A" /\ events[1].to = {"s1"}
  /\ events[2].type = "new_message" /\ events[2].room = "B" /\ events[2].to = {"s2"}

\* The sale of the player has been announced to the auction's room.
SaleAnnounced(auctionId, player) ==
  \E k \in DOMAIN events :
    /\ events[k].type = "player_sold_update"
    /\ events[k].room = auctionId
    /\ events[k].payload = player

\* C25: once the round of a player has resolved and its sale was announced, a
\* duplicate or late timer or sale notification for the auction changes no
\* state (auction, bids, teams) and the terminal event is not sent again.
C25_LateNotificationIgnored ==
  [][\A a \in AuctionIds, p \in PlayerIds :
       ( /\ SaleAnnounced(a, p)
         /\ Emits
         /\ LastEvent.room = a
         /\ LastEvent.type \in {"timer_tick", "player_sold_update"} )
       => /\ auction' = auction /\ bids' = bids /\ teams' = teams
          /\ ~(LastEvent.type = "player_sold_update" /\ LastEvent.payload = p)]_vars

\* C29: every bid_update, auction_status_changed, timer_tick and
\* player_sold_update emitted to the auction's room reflects the state of the
\* server: the bid is a stored Bid, the status is the auction's status, the
\* timer value is the auction's timer.remaining, the player is in soldPlayers.
C29_EventsReflectServerState ==
  [][(Emits /\ LastEvent.room = "A")
     => /\ LastEvent.type = "bid_update"
             => \E b \in bids : b.id = LastEvent.payload
        /\ LastEvent.type = "auction_status_changed"
             => LastEvent.payload = auction.status
        /\ LastEvent.type = "timer_tick"
             => LastEvent.payload = auction.timer.remaining
        /\ LastEvent.type = "player_sold_update"
             => LastEvent.payload \in auction.soldPlayers]_vars

\* ---------------------------------------------------------------------------
\* The sale of the current player.  sellPlayer(teamId, amount) is declared on
\* the auction document (database.ts 288) and has no implementation in the
\* sources: it is taken from the specification of the session state machine.
\* The purchase it commits is Team.addPlayer, which the sources have.
\* ---------------------------------------------------------------------------

MaxSales == 1

\* The winning Bids of the player.
WinningFor(bs, playerId) == {b \in bs : b.playerId = playerId /\ b.isWinning}

\* sellPlayer is valid only while the auction is active with a current player,
\* confirms the winning Bid (its team and amount), and commits the purchase
\* with the ledger's own checks.
SellError(a, bs, ts, teamId, amount) ==
  IF a.status # "active" \/ a.currentPlayer = Null THEN "InvalidTransition"
  ELSE IF WinningFor(bs, a.currentPlayer) = {} THEN "NoActiveBid"
  ELSE IF \A b \in WinningFor(bs, a.currentPlayer) :
            b.teamId # teamId \/ b.amount # amount THEN "NotLeadingBid"
  ELSE IF AddPlayerError(ts[teamId], a.currentPlayer, amount) # Null
    THEN "BudgetExceeded"
  ELSE Null

\* The auction after the sale: the player is in soldPlayers, the statistics
\* count the sale, and the auction pauses (settings.autoPauseOnSold, true by
\* default).
Sold(a, amount) ==
  [a EXCEPT !.soldPlayers = @ \cup {a.currentPlayer},
            !.statistics.totalSold = @ + 1,
            !.statistics.totalRevenue = @ + amount,
            !.status = "paused"]

SellPlayer(teamId, amount) ==
  LET error == SellError(auction, bids, teams, teamId, amount)
  IN  /\ auction' = IF error = Null THEN Sold(auction, amount) ELSE auction
      /\ teams' = IF error = Null
                    THEN [teams EXCEPT ![teamId] =
                            AfterAddPlayer(@, auction.currentPlayer, amount)]
                    ELSE teams
      /\ ctl' = Append(ctl, LedgerCall("sellPlayer", teamId, auction.currentPlayer,
                                       amount, IF error = Null THEN "OK" ELSE error))
      /\ UNCHANGED <<bids, req, rooms, events>>

\* Bids for P, one request at a time, and the auctioneer's sale.
SaleNext ==
  \/ /\ Len(req) < MaxSequentialBids
     /\ Quiescent
     /\ \E bidder \in {<<Captain1, "team1">>, <<Manager2, "team2">>}, a \in {40, 60} :
          PlaceBid(bidder[1], bidder[2], "P", a)
  \/ \E i \in DOMAIN req : CheckAuction(i)
  \/ \E i \in DOMAIN req : FindHighest(i)
  \/ \E i \in DOMAIN req : ClearWinners(i)
  \/ \E i \in DOMAIN req : CreateBid(i)
  \/ \E i \in DOMAIN req : SaveAuction(i)
  \/ /\ Len(ctl) < MaxSales
     /\ Quiescent
     /\ \E t \in TeamIds, a \in {40, 60} : SellPlayer(t, a)

SaleSpec == Init /\ [][SaleNext]_vars

\* C24: a sale of the current player to a team at the leading amount raises
\* the team's totalSpent by exactly that amount, appends the player with that
\* amount to the team's roster, moves the player from the remaining queue to
\* soldPlayers and raises statistics.totalSold by 1.
C24_SaleCommitsPurchase ==
  [][\A t \in TeamIds :
       ( /\ Called("sellPlayer")
         /\ ctl'[Len(ctl')].field = t
         /\ ctl'[Len(ctl')].result = "OK" )
       => LET p == ctl'[Len(ctl')].value
              amount == ctl'[Len(ctl')].amount
          IN  /\ p = auction.currentPlayer
              /\ \E b \in bids : b.playerId = p /\ b.teamId = t /\ b.amount = amount
                                 /\ b.isWinning
              /\ teams'[t].totalSpent = teams[t].totalSpent + amount
              /\ teams'[t].players
                   = Append(teams[t].players, [playerId |-> p, amount |-> amount])
              /\ p \in Range(remainingPlayers(auction))
              /\ p \notin Range(remainingPlayers(auction'))
              /\ auction'.soldPlayers = auction.soldPlayers \cup {p}
              /\ auction'.statistics.totalSold = auction.statistics.totalSold + 1]_vars

\* After bids of 40 by team1 and 60 by team2, P was sold to team2 for 60.
C24_Witness ==
  /\ Len(ctl) = 1
  /\ ctl[1].kind = "sellPlayer" /\ ctl[1].result = "OK"
  /\ ctl[1].field = "team2" /\ ctl[1].value = "P" /\ ctl[1].amount = 60
  /\ Len(req) = 2 /\ req[1].amount = 40 /\ req[2].amount = 60
  /\ teams["team2"].totalSpent = 60
  /\ teams["team2"].players = <<[playerId |-> "P", amount |-> 60]>>
  /\ auction.soldPlayers = {"P"}
  /\ auction.statistics.totalSold = 1
====
